---- MODULE Spec2Model ----
(***************************************************************************)
(* A model of DeliciousAPI (src/deliciousapi.py): the transport _query,    *)
(* the pagination driver get_bookmarks, the two HTML page extractors, the  *)
(* facade methods get_url, get_user and get_tags_of_user and the decoding  *)
(* of their feeds, the tags property of DeliciousURL and DeliciousUser,    *)
(* and DeliciousMonitor (src/deliciousmonitor.py).                         *)
(*                                                                         *)
(* Spec        : a client calling the methods of one instance              *)
(* SpecDecode  : the page extractors and the feed decoders applied to      *)
(*               bounded pages and feeds                                   *)
(* SpecSession : a client constructing an instance and calling _query and  *)
(*               get_tags_of_user on it several times                      *)
(* SpecMonitor : a DeliciousMonitor running: monitor runs over bounded     *)
(*               feeds, each new entry looked up with get_url              *)
(***************************************************************************)
EXTENDS Integers, Sequences, FiniteSets, TLC

VARIABLES
    self_tries,        \* self.tries
    self_wait_seconds, \* self.wait_seconds
    pc,                \* position of the running call
    caller,            \* who called _query: "direct" or "get_bookmarks"
    tries,             \* _query: local tries
    data,              \* _query: local data, then get_bookmarks' data
    username,          \* get_bookmarks: TRUE when called with username, FALSE with url
    max_bookmarks,     \* get_bookmarks: max_bookmarks
    sleep_seconds,     \* get_bookmarks: sleep_seconds
    path,              \* get_bookmarks: path
    page_index,        \* get_bookmarks: page_index
    bookmarks,         \* get_bookmarks: bookmarks
    result,            \* how the call ended: returned value or raised exception
    q_requests,        \* history: requests issued by the current _query call
    q_http,            \* history: HTTP responses received by the current _query call
    q_last,            \* history: last thing the current _query call received
    slept,             \* history: seconds slept since the last request
    gap,               \* history: seconds slept between the last two page requests
    served,            \* history: per extracted page, its records and whether it had a next link
    page,              \* history: the last body get_bookmarks processed
    emptyPage,         \* history: a page with 0 records was processed in this call
    self_http_proxy,   \* self.http_proxy
    self_user_agent,   \* self.user_agent
    self_timeout,      \* self.timeout
    api,               \* the method the client called
    password,          \* get_user: TRUE when called with a password
    document,          \* get_url: the fields of document set from the summary
    q_host,            \* _query: host
    q_ssl,             \* _query: use_ssl
    q_auth,            \* _query: handlers holds the basic-auth handler
    sent,              \* history: the kinds of request the running call has issued
    prev,              \* history: the calls that ended before on this instance
    arg,               \* SpecDecode: the body given to the function
    ret,               \* SpecDecode: the function applied and what it gave
    mon_pc,            \* position of run() and monitor()
    self_interval,     \* self.interval
    self_urls,         \* self.urls
    log_file,          \* the lines of the log file
    log_exists,        \* the log file exists
    output_file,       \* the <document> elements of the output file
    log_open,          \* monitor: log_file is open
    output_open,       \* monitor: output_file is open
    entries,           \* monitor: f.entries, the link of each entry
    new_entries,       \* monitor: new_entries
    index,             \* monitor: position of the loop in new_entries, from 1
    runs,              \* history: calls of monitor() so far
    wait_seconds,      \* run: wait_seconds
    elapsed,           \* run: elapsed, in milliseconds
    mon_exc,           \* history: the exception get_url raised in this run
    log_start,         \* history: lines of the log when the run began
    out_start          \* history: elements of the output when the run began

vars == <<self_tries, self_wait_seconds, pc, caller, tries, data, username,
          max_bookmarks, sleep_seconds, path, page_index, bookmarks, result,
          q_requests, q_http, q_last, slept, gap, served, page, emptyPage,
          self_http_proxy, self_user_agent, self_timeout, api, password, document,
          q_host, q_ssl, q_auth, sent, prev, arg, ret, mon_pc, self_interval,
          self_urls, log_file, log_exists, output_file, log_open, output_open,
          entries, new_entries, index, runs, wait_seconds, elapsed, mon_exc,
          log_start, out_start>>

apiVars == <<self_tries, self_wait_seconds, pc, caller, tries, data, username,
             max_bookmarks, sleep_seconds, path, page_index, bookmarks, result,
             q_requests, q_http, q_last, slept, gap, served, page, emptyPage,
             self_http_proxy, self_user_agent, self_timeout, api, password,
             document, q_host, q_ssl, q_auth, sent, prev>>

pureVars == <<arg, ret>>

monVars == <<mon_pc, self_interval, self_urls, log_file, log_exists, output_file,
             log_open, output_open, entries, new_entries, index, runs,
             wait_seconds, elapsed, mon_exc, log_start, out_start>>

cfgVars == <<self_http_proxy, self_user_agent, self_timeout>>

reqVars == <<q_host, q_ssl, q_auth>>

callVars == <<api, password, document>>

(***************************************************************************)
(* Bounds of the model.                                                    *)
(***************************************************************************)
MaxTries == 2        \* self.tries ranges over 1..MaxTries
MaxPages == 3        \* result pages one get_bookmarks call may request
MaxBlocks == 4       \* bookmark blocks of a page given to an extractor
MaxPosts == 3        \* posts of a feed given to get_user
MaxTags == 3         \* entries of the top_tags map of a URL summary
MaxCalls == 2        \* calls that end on one instance in SpecSession
MaxBookmarks == 2    \* bookmarks of a DeliciousURL or DeliciousUser given to get_tags
MaxEntries == 2      \* entries of the RSS feed of one monitor run
MaxRuns == 2         \* monitor runs

(***************************************************************************)
(* Python values.                                                          *)
(***************************************************************************)
None == "None"
Unbound == "<unbound>"     \* a local variable that was never assigned

Min(a, b) == IF a <= b THEN a ELSE b

\* seq[:n] for n >= 0
Prefix(seq, n) == SubSeq(seq, 1, Min(n, Len(seq)))

(***************************************************************************)
(* HTML pages.  A bookmark block is a <div class="bookmark ..."> and the   *)
(* elements the extractors look for inside it.                             *)
(***************************************************************************)
\* datetime.datetime.strptime(date_str, '%d %b %y')
StrpTime(date_str) ==
    CASE date_str = "31 Dec 08" -> "2008-12-31 00:00:00"
      [] date_str = "01 Jan 09" -> "2009-01-01 00:00:00"
      [] OTHER -> "ValueError"

Block(dateGroup, description, link, tags, userlink) ==
    [dateGroup   |-> dateGroup,    \* "absent", "nospan" or the span's text
     data        |-> description # "absent" \/ link # "absent",  \* <div class="data">
     description |-> description,  \* "absent" or the text of div.description
     taggedlink  |-> link,         \* "absent" or the href of a.taggedlink
     tagdisplay  |-> tags # <<"absent">>,
     tags        |-> IF tags = <<"absent">> THEN <<>> ELSE tags,
     meta        |-> userlink # "nometa",
     userlink    |-> userlink]     \* "nometa", "absent", "nospan" or the user name

\* the text of a.taggedlink, by its href
LinkTitle(href) == IF href = "http://a/" THEN "Title A" ELSE "Title B"

(***************************************************************************)
(* The page extractors.  Both walk the bookmark blocks in document order   *)
(* with locals that live across the iterations of the loop.                *)
(***************************************************************************)

\* BlockTimestamp forgetting the date of the blocks before
BlockTimestampNoCarry(b, timestamp) ==
    IF b.dateGroup \notin {"absent", "nospan"}
    THEN StrpTime(b.dateGroup)
    ELSE None

\* lines 546-551 and 598-603: the timestamp after looking at the block's dateGroup
BlockTimestamp(b, timestamp) ==
    IF b.dateGroup \notin {"absent", "nospan"}
    THEN StrpTime(b.dateGroup)
    ELSE timestamp

\* lines 554-559 and 606-615: comment
BlockComment(b) ==
    IF b.data /\ b.description # "absent" THEN b.description ELSE ""

\* lines 562-568 and 618-624: user_tags / url_tags
BlockTags(b) == IF b.tagdisplay THEN b.tags ELSE <<>>

\* one iteration of the loop of _extract_bookmarks_from_url_history
UrlHistoryStep(st, b) ==
    LET timestamp == BlockTimestamp(b, st.timestamp)
        links     == b.meta /\ b.userlink # "absent"
        user      == IF links /\ b.userlink # "nospan" THEN b.userlink ELSE st.user
    IN  IF timestamp = "ValueError"
        THEN [st EXCEPT !.exc = "ValueError"]
        ELSE IF links /\ user = Unbound
        THEN [st EXCEPT !.exc = "UnboundLocalError", !.timestamp = timestamp]
        ELSE [exc       |-> "none",
              timestamp |-> timestamp,
              user      |-> user,
              bookmarks |-> IF links
                            THEN Append(st.bookmarks,
                                        <<user, BlockTags(b), BlockComment(b), timestamp>>)
                            ELSE st.bookmarks]

RECURSIVE UrlHistoryLoop(_, _, _)
UrlHistoryLoop(blocks, i, st) ==
    IF i > Len(blocks) \/ st.exc # "none"
    THEN st
    ELSE UrlHistoryLoop(blocks, i + 1, UrlHistoryStep(st, blocks[i]))

\* _extract_bookmarks_from_url_history(data): [exc, bookmarks]
extract_bookmarks_from_url_history(body) ==
    LET st == UrlHistoryLoop(body.blocks, 1,
                  [exc |-> "none", timestamp |-> None, user |-> Unbound,
                   bookmarks |-> <<>>])
    IN  [exc |-> st.exc, bookmarks |-> IF st.exc = "none" THEN st.bookmarks ELSE <<>>]

\* one iteration of the loop of _extract_bookmarks_from_user_history
UserHistoryStep(st, b) ==
    LET timestamp == BlockTimestamp(b, st.timestamp)
        links     == b.data /\ b.taggedlink # "absent"
        title     == IF links THEN LinkTitle(b.taggedlink) ELSE st.title
        url       == IF links THEN b.taggedlink ELSE st.url
    IN  IF timestamp = "ValueError"
        THEN [st EXCEPT !.exc = "ValueError"]
        ELSE IF url = Unbound
        THEN [st EXCEPT !.exc = "UnboundLocalError", !.timestamp = timestamp]
        ELSE [exc       |-> "none",
              timestamp |-> timestamp,
              url       |-> url,
              title     |-> title,
              bookmarks |-> Append(st.bookmarks,
                                   <<url, BlockTags(b), title, BlockComment(b), timestamp>>)]

RECURSIVE UserHistoryLoop(_, _, _)
UserHistoryLoop(blocks, i, st) ==
    IF i > Len(blocks) \/ st.exc # "none"
    THEN st
    ELSE UserHistoryLoop(blocks, i + 1, UserHistoryStep(st, blocks[i]))

\* _extract_bookmarks_from_user_history(data): [exc, bookmarks]
extract_bookmarks_from_user_history(body) ==
    IF ~body.ul
    THEN [exc |-> "none", bookmarks |-> <<>>]
    ELSE LET st == UserHistoryLoop(body.blocks, 1,
                       [exc |-> "none", timestamp |-> None, url |-> Unbound,
                        title |-> Unbound, bookmarks |-> <<>>])
         IN  [exc |-> st.exc,
              bookmarks |-> IF st.exc = "none" THEN st.bookmarks ELSE <<>>]

(***************************************************************************)
(* Response bodies.  kind "None" is Python's None (no body), "empty" the   *)
(* empty string, "page" an HTML page: its bookmark blocks, whether they    *)
(* sit in <ul id="bookmarklist">, whether <div id="pagination"> exists and *)
(* the href of its <a class="pn next"> ("absent" when there is none);      *)
(* "json" is a JSON list of posts, "xml" the <post> elements of the        *)
(* full-history feed, "urlinfo" the JSON list of the URL summary (infos),  *)
(* "tagmap" the JSON object of a user's tags (its members in the order the *)
(* decoded dict yields them), "garbage" a body that is not JSON.           *)
(***************************************************************************)
NoData == [kind |-> "None", ul |-> FALSE, blocks |-> <<>>, pagination |-> FALSE,
           next |-> "absent", posts |-> <<>>, infos |-> <<>>, tagmap |-> <<>>]
EmptyBody == [NoData EXCEPT !.kind = "empty"]

Page(blocks, pagination, next) ==
    [kind |-> "page", ul |-> TRUE, blocks |-> blocks, pagination |-> pagination,
     next |-> next, posts |-> <<>>, infos |-> <<>>, tagmap |-> <<>>]

Garbage == [NoData EXCEPT !.kind = "garbage"]

\* simplejson.loads(data): ValueError for a body that is not JSON
loads(body) == IF body.kind = "garbage" THEN "ValueError" ELSE "none"

\* Python's truth value of data
Truthy(body) == body.kind \notin {"None", "empty"}

(***************************************************************************)
(* The feed decoding of get_user.                                          *)
(***************************************************************************)

\* datetime.datetime.strptime(s, "%Y-%m-%dT%H:%M:%SZ")
StrpTimeISO(s) ==
    CASE s = "2009-01-01T10:00:00Z" -> "2009-01-01 10:00:00"
      [] s = "2008-12-31T23:59:59Z" -> "2008-12-31 23:59:59"
      [] OTHER -> "ValueError"

\* a post of the user JSON feed: a key that is missing is "absent" (hasT: key 't')
JsonPost(u, d, hasT, t, dt) == [u |-> u, d |-> d, hasT |-> hasT, t |-> t, dt |-> dt]

\* lines 720-725: the tags of the record, given the tags left by the post before
PostTags(post, tags) ==
    LET t == IF post.hasT THEN post.t ELSE tags
    IN  IF t = <<>> THEN <<"system:unfiled">> ELSE t

\* lines 708-731: one iteration of the loop over the posts of the JSON feed
UserFeedStep(st, post) ==
    LET url       == IF post.u # "absent" THEN post.u ELSE st.url
        title     == IF post.d # "absent" THEN post.d ELSE st.title
        tags      == PostTags(post, st.tags)
        timestamp == IF post.dt # "absent" THEN StrpTimeISO(post.dt) ELSE st.timestamp
    IN  IF timestamp = "ValueError"
        THEN [st EXCEPT !.exc = "ValueError"]
        ELSE [exc       |-> "none",
              url       |-> url,
              title     |-> title,
              tags      |-> tags,
              timestamp |-> timestamp,
              bookmarks |-> Append(st.bookmarks, <<url, tags, title, "", timestamp>>)]

RECURSIVE UserFeedLoop(_, _, _)
UserFeedLoop(posts, i, st) ==
    IF i > Len(posts) \/ st.exc # "none"
    THEN st
    ELSE UserFeedLoop(posts, i + 1, UserFeedStep(st, posts[i]))

\* lines 704-731: the records of the posts of the JSON feed: [exc, bookmarks]
DecodeUserFeed(body) ==
    LET st == UserFeedLoop(body.posts, 1,
                  [exc |-> "none", url |-> None, title |-> "", tags |-> <<>>,
                   timestamp |-> None, bookmarks |-> <<>>])
    IN  [exc |-> st.exc, bookmarks |-> IF st.exc = "none" THEN st.bookmarks ELSE <<>>]

\* a <post> element of the full-history feed: an attribute that is missing is "absent"
XmlPost(href, description, extended, tag, time) ==
    [href |-> href, description |-> description, extended |-> extended,
     tag |-> tag, time |-> time]

\* element["tag"].split()
Split(s) ==
    CASE s = "python web" -> <<"python", "web">>
      [] s = "python" -> <<"python">>
      [] OTHER -> <<>>

\* lines 680-687: the record of one <post> element, or the exception raised
AllPostsRecord(e) ==
    IF "absent" \in {e.href, e.description, e.extended, e.tag, e.time}
    THEN [exc |-> "KeyError", record |-> <<>>]
    ELSE IF StrpTimeISO(e.time) = "ValueError"
    THEN [exc |-> "ValueError", record |-> <<>>]
    ELSE [exc    |-> "none",
          record |-> <<e.href,
                       IF e.tag # "" THEN Split(e.tag) ELSE <<>>,
                       e.description, e.extended, StrpTimeISO(e.time)>>]

RECURSIVE AllPostsLoop(_, _, _)
AllPostsLoop(posts, i, st) ==
    IF i > Len(posts) \/ st.exc # "none"
    THEN st
    ELSE LET r == AllPostsRecord(posts[i])
         IN  AllPostsLoop(posts, i + 1,
                 IF r.exc # "none"
                 THEN [st EXCEPT !.exc = r.exc]
                 ELSE [st EXCEPT !.bookmarks = Append(st.bookmarks, r.record)])

\* lines 677-687: the records of the full-history feed: [exc, bookmarks]
DecodeAllPosts(body) ==
    LET st == AllPostsLoop(body.posts, 1, [exc |-> "none", bookmarks |-> <<>>])
    IN  [exc |-> st.exc, bookmarks |-> IF st.exc = "none" THEN st.bookmarks ELSE <<>>]

\* UserSlice keeping every record
UserSliceAll(bs, cap) == bs

\* line 732: bookmarks[:max_bookmarks], the records get_user keeps of the JSON feed
UserSlice(bs, cap) == Prefix(bs, cap)

\* lines 697-732 and 675-688: the bookmarks of the user given the feed's body
UserPosts(body, withPassword, cap) ==
    IF ~Truthy(body)
    THEN [exc |-> "none", bookmarks |-> <<>>]
    ELSE IF withPassword
    THEN DecodeAllPosts(body)
    ELSE IF loads(body) # "none"
    THEN [exc |-> loads(body), bookmarks |-> <<>>]
    ELSE LET out == DecodeUserFeed(body)
         IN  [out EXCEPT !.bookmarks = UserSlice(out.bookmarks, cap)]

(***************************************************************************)
(* The summary decoding of get_url.                                        *)
(***************************************************************************)

\* the object of the URL summary: a key that is missing is "absent" (hasTopTags:
\* key 'top_tags'); top_tags lists the (tag, count) members as the dict yields them
UrlInfo(title, hasTopTags, top_tags, total_posts) ==
    [title |-> title, hasTopTags |-> hasTopTags, top_tags |-> top_tags,
     total_posts |-> total_posts]

\* int(urlinfo['total_posts'])
ParseInt(s) ==
    CASE s = "5" -> [exc |-> "none", value |-> 5]
      [] s = "12" -> [exc |-> "none", value |-> 12]
      [] OTHER -> [exc |-> "ValueError", value |-> 0]

\* the place of pair p in a list sorted by non-increasing count: behind the
\* pairs whose count is not below p's
RECURSIVE InsertByCount(_, _)
InsertByCount(list, p) ==
    IF list = <<>>
    THEN <<p>>
    ELSE IF Head(list)[2] >= p[2]
    THEN <<Head(list)>> \o InsertByCount(Tail(list), p)
    ELSE <<p>> \o list

RECURSIVE SortLoop(_, _, _)
SortLoop(items, i, acc) ==
    IF i > Len(items) THEN acc ELSE SortLoop(items, i + 1, InsertByCount(acc, items[i]))

\* sorted leaving the items in the order the dict yields them
sortedNot(items) == items

\* line 406: sorted(top_tags.iteritems(), key=itemgetter(1), reverse=True)
sorted(items) == SortLoop(items, 1, <<>>)

NoDocument == [title |-> "", top_tags |-> <<>>, total_bookmarks |-> 0]

\* lines 391-415: the fields of document set from the summary's body, or the
\* exception raised: [exc, title, top_tags, total_bookmarks]
DecodeUrlInfo(body) ==
    LET none == [exc |-> "none", title |-> "", top_tags |-> <<>>, total_bookmarks |-> 0]
    IN  IF loads(body) # "none"
        THEN [none EXCEPT !.exc = loads(body)]
        ELSE IF body.infos = <<>>
        THEN [none EXCEPT !.exc = "TypeError"]
        ELSE LET urlinfo == body.infos[1]
                 total   == ParseInt(urlinfo.total_posts)
             IN  IF urlinfo.total_posts # "absent" /\ total.exc # "none"
                 THEN [none EXCEPT !.exc = total.exc]
                 ELSE [exc      |-> "none",
                       title    |-> IF urlinfo.title \in {"absent", None}
                                    THEN ""
                                    ELSE urlinfo.title,
                       top_tags |-> IF urlinfo.hasTopTags
                                    THEN sorted(urlinfo.top_tags)
                                    ELSE <<>>,
                       total_bookmarks |-> IF urlinfo.total_posts = "absent"
                                           THEN 0
                                           ELSE total.value]

\* prev taken as a cache of the tags
TagsOfCached(body) == IF prev.calls > 0 THEN prev.result.tags ELSE body.tagmap

\* line 756: tags = simplejson.loads(data)
TagsOf(body) == body.tagmap

(***************************************************************************)
(* The tags property of DeliciousURL and DeliciousUser.                    *)
(***************************************************************************)

\* total_tags.get(tag, 0) of a dict held as a function from its keys
DictGet(total_tags, tag) == IF tag \in DOMAIN total_tags THEN total_tags[tag] ELSE 0

\* total_tags[tag] = value
DictSet(total_tags, tag, value) ==
    [t \in DOMAIN total_tags \cup {tag} |-> IF t = tag THEN value ELSE total_tags[t]]

\* lines 137-138, 215-216: the loop over the tags of one bookmark
RECURSIVE TagLoop(_, _, _)
TagLoop(tags, i, total_tags) ==
    IF i > Len(tags)
    THEN total_tags
    ELSE TagLoop(tags, i + 1,
                 DictSet(total_tags, tags[i], DictGet(total_tags, tags[i]) + 1))

\* lines 136-138: the loop over the bookmarks (url, tags, title, comment, timestamp)
RECURSIVE UserBookmarkLoop(_, _, _)
UserBookmarkLoop(bs, i, total_tags) ==
    IF i > Len(bs)
    THEN total_tags
    ELSE UserBookmarkLoop(bs, i + 1, TagLoop(bs[i][2], 1, total_tags))

\* lines 214-216: the loop over the bookmarks (user, tags, comment, timestamp)
RECURSIVE UrlBookmarkLoop(_, _, _)
UrlBookmarkLoop(bs, i, total_tags) ==
    IF i > Len(bs)
    THEN total_tags
    ELSE UrlBookmarkLoop(bs, i + 1, TagLoop(bs[i][2], 1, total_tags))

\* lines 126-139: DeliciousUser.get_tags on an object whose bookmarks are bs
DeliciousUser_get_tags(bs) == UserBookmarkLoop(bs, 1, <<>>)

\* lines 204-217: DeliciousURL.get_tags on an object whose bookmarks are bs
DeliciousURL_get_tags(bs) == UrlBookmarkLoop(bs, 1, <<>>)

(***************************************************************************)
(* What the server may answer to a request of the model.                   *)
(***************************************************************************)
Dated   == Block("31 Dec 08", "a note", "http://a/", <<"python">>, "alice")
Undated == Block("absent", "absent", "http://b/", <<"absent">>, "bob")

PageBlocks == {<<>>, <<Undated>>, <<Dated, Undated>>}

NextHref == "?page=next"

\* pages with a pagination div, with and without a next link in it, and a page
\* without a pagination div
PageBodies ==
    {Page(bs, TRUE, next) : bs \in PageBlocks, next \in {"absent", NextHref}}
        \cup {Page(<<Dated, Undated>>, FALSE, "absent")}

\* a full result page: "Delicious only returns up to 50 bookmarks per URL"
PageSize == 50
FullPage == Page([i \in 1..PageSize |-> Dated], TRUE, NextHref)

InfoBody(infos) == [NoData EXCEPT !.kind = "urlinfo", !.infos = infos]

\* what feeds.delicious.com answers to /v2/json/urlinfo/<hash>
SummaryBodies ==
    {InfoBody(<<UrlInfo("Title", TRUE, <<<<"web", 1>>, <<"python", 2>>>>, "5")>>),
     InfoBody(<<UrlInfo("absent", FALSE, <<>>, "absent")>>),
     InfoBody(<<>>),
     Garbage,
     EmptyBody}

JsonFeed(posts) == [NoData EXCEPT !.kind = "json", !.posts = posts]

PostA == JsonPost("http://a/", "Title A", TRUE, <<"python", "web">>, "2009-01-01T10:00:00Z")
PostB == JsonPost("http://b/", "Title B", FALSE, <<>>, "2008-12-31T23:59:59Z")
PostC == JsonPost("http://c/", "Title C", TRUE, <<"web">>, "absent")

\* what feeds.delicious.com answers to /v2/json/<username>?count=100
FeedBodies ==
    {JsonFeed(<<>>), JsonFeed(<<PostA>>), JsonFeed(<<PostB, PostA, PostC>>),
     Garbage, EmptyBody}

XmlFeed(posts) == [NoData EXCEPT !.kind = "xml", !.posts = posts]

\* what api.del.icio.us answers to /v1/posts/all
AllPostsBodies ==
    {XmlFeed(<<>>),
     XmlFeed(<<XmlPost("http://a/", "Title A", "a note", "python web", "2009-01-01T10:00:00Z"),
               XmlPost("http://b/", "Title B", "", "", "2008-12-31T23:59:59Z"),
               XmlPost("http://b/", "", "", "python", "2009-01-01T10:00:00Z")>>),
     EmptyBody}

TagMap(members) == [NoData EXCEPT !.kind = "tagmap", !.tagmap = members]

\* what feeds.delicious.com answers to /v2/json/tags/<username>
TagBodies ==
    {TagMap(<<>>), TagMap(<<<<"python", 3>>, <<"web", 1>>>>), TagMap(<<<<"web", 2>>>>),
     Garbage, EmptyBody}

\* what the server answers to the requests of the monitor's get_url calls
MonitorSummaryBodies ==
    {InfoBody(<<UrlInfo("Title", TRUE, <<<<"web", 1>>, <<"python", 2>>>>, "5")>>),
     EmptyBody}
MonitorPageBodies == {Page(<<Dated>>, TRUE, "absent")}

\* The bodies the server of the model answers with: those of the monitor's
\* calls when a monitor runs, else the feed of the endpoint
\* asked, a page or an empty body for a direct _query call, pages of up to two
\* blocks for get_bookmarks, and full pages for its calls with
\* max_bookmarks = 120.
Bodies ==
    IF mon_pc # "off"
    THEN IF caller = "get_url" THEN MonitorSummaryBodies ELSE MonitorPageBodies
    ELSE
    CASE caller = "get_bookmarks" /\ max_bookmarks = 120 ->
             {FullPage, Page(<<Undated>>, TRUE, NextHref), EmptyBody}
      [] caller = "get_url" -> SummaryBodies
      [] caller = "get_user" /\ password -> AllPostsBodies
      [] caller = "get_user" /\ ~password -> FeedBodies
      [] caller = "get_tags_of_user" -> TagBodies
      [] caller = "direct" -> {Page(<<Undated>>, TRUE, "absent"), EmptyBody}
      [] OTHER -> PageBodies \cup {EmptyBody}

\* HTTP status codes urllib2 reports as HTTPError
ErrorCodes == {301, 302, 401, 403, 404, 500, 503, 999}

NetworkErrors == {"URLError", "socket.error"}

WaitChoices == {0, 3}          \* values of wait_seconds the model constructs with
SleepChoices == {0, 1, 2}      \* values of sleep_seconds the model calls with
CapChoices == {0, 1, 2, 3, 120}     \* values of max_bookmarks the model calls with
UrlCapChoices == {0, 2}             \* values of max_bookmarks get_url is called with
UserCapChoices == {0, 1, 2, 100, 101}   \* values of max_bookmarks get_user is called with

(***************************************************************************)
(* _query                                                                  *)
(***************************************************************************)

\* Classify without the 999 alias of 503
ClassifyNoAlias(code) ==
    IF code = 301 THEN "DeliciousMovedPermanentlyWarning"
    ELSE IF code = 302 THEN "DeliciousMovedTemporarilyWarning"
    ELSE IF code = 401 THEN "DeliciousUnauthorizedError"
    ELSE IF code = 404 THEN "DeliciousNotFoundError"
    ELSE IF code = 500 THEN "Delicious500Error"
    ELSE IF code = 503 THEN "DeliciousThrottleError"
    ELSE "DeliciousUnknownError"

\* lines 326-340: the exception raised for HTTPError e
Classify(code) ==
    IF code = 301 THEN "DeliciousMovedPermanentlyWarning"
    ELSE IF code = 302 THEN "DeliciousMovedTemporarilyWarning"
    ELSE IF code = 401 THEN "DeliciousUnauthorizedError"
    ELSE IF code = 404 THEN "DeliciousNotFoundError"
    ELSE IF code = 500 THEN "Delicious500Error"
    ELSE IF code = 503 \/ code = 999 THEN "DeliciousThrottleError"
    ELSE "DeliciousUnknownError"

NoResult == [kind |-> "none", exc |-> "none", data |-> NoData, bookmarks |-> <<>>,
             title |-> "", top_tags |-> <<>>, total_bookmarks |-> 0, tags |-> <<>>]
Raised(exc) == [NoResult EXCEPT !.kind = "raised", !.exc = exc]
ReturnedData(body) == [NoResult EXCEPT !.kind = "returned", !.data = body]
ReturnedBookmarks(bs) == [NoResult EXCEPT !.kind = "returned", !.bookmarks = bs]
ReturnedDocument(doc, bs) ==
    [NoResult EXCEPT !.kind = "returned", !.bookmarks = bs, !.title = doc.title,
                     !.top_tags = doc.top_tags,
                     !.total_bookmarks = doc.total_bookmarks]
ReturnedTags(tags) == [NoResult EXCEPT !.kind = "returned", !.tags = tags]

\* time.sleep(n), seen from the last request (slept < 0: no request yet)
Sleep(n) == IF slept < 0 THEN slept ELSE slept + n

\* QueryBegin with a retry counter that the calls of the instance share
QueryBeginShared ==
    /\ tries' = self_tries - prev.requests
    /\ data' = NoData
    /\ q_requests' = 0
    /\ q_http' = 0
    /\ q_last' = -1
    /\ pc' = "q_loop"

\* lines 312-319: the locals of _query before its loop
QueryBegin ==
    /\ tries' = self_tries
    /\ data' = NoData
    /\ q_requests' = 0
    /\ q_http' = 0
    /\ q_last' = -1
    /\ pc' = "q_loop"

\* lines 284-319: _query(path, host, user, password, use_ssl) up to its loop;
\* user and pw tell whether the argument is given (not None, not empty)
QueryCall(host, use_ssl, user, pw) ==
    /\ QueryBegin
    /\ q_host' = host
    /\ q_ssl' = use_ssl
    /\ q_auth' = (user /\ pw)

\* line 323: opener.open(url) sends one request
QuerySend ==
    /\ q_requests' = q_requests + 1
    /\ gap' = IF caller = "get_bookmarks" THEN slept ELSE gap
    /\ sent' = sent \cup {[host |-> q_host, ssl |-> q_ssl, auth |-> q_auth]}

\* the value of tries after line 350, given the value before the attempt
TriesAfterAttempt(t) == t - 1

\* lines 321-325, 350: an attempt answered with status 200
QueryOk(body) ==
    /\ pc = "q_loop"
    /\ tries > 0
    /\ QuerySend
    /\ data' = body
    /\ tries' = TriesAfterAttempt(tries)
    /\ q_http' = q_http + 1
    /\ q_last' = 200
    /\ slept' = 0
    /\ UNCHANGED <<self_tries, self_wait_seconds, pc, caller, username, max_bookmarks,
                   sleep_seconds, path, page_index, bookmarks, result, served, page,
                   emptyPage, pureVars, monVars,
                   cfgVars, reqVars, callVars, prev>>

\* QueryHTTPError treating the status as one more failed attempt
QueryHTTPErrorSwallowed(code) ==
    /\ pc = "q_loop"
    /\ tries > 0
    /\ QuerySend
    /\ tries' = tries - 1
    /\ q_http' = q_http + 1
    /\ q_last' = code
    /\ slept' = 0
    /\ UNCHANGED <<self_tries, self_wait_seconds, pc, caller, data, username,
                   max_bookmarks, sleep_seconds, path, page_index, bookmarks, result,
                   served, page, emptyPage, pureVars, monVars,
                   cfgVars, reqVars, callVars, prev>>

\* lines 321-323, 326-340: an attempt answered with an HTTP error status
QueryHTTPError(code) ==
    /\ pc = "q_loop"
    /\ tries > 0
    /\ QuerySend
    /\ result' = Raised(Classify(code))
    /\ pc' = "done"
    /\ q_http' = q_http + 1
    /\ q_last' = code
    /\ slept' = 0
    /\ UNCHANGED <<self_tries, self_wait_seconds, caller, tries, data, username,
                   max_bookmarks, sleep_seconds, path, page_index, bookmarks, served,
                   page, emptyPage, pureVars, monVars,
                   cfgVars, reqVars, callVars, prev>>

\* TriesAfterFailure giving up after the first failure
TriesAfterFailureGiveUp(t) == 0

\* the value of tries after a network-level failure (lines 342-350)
TriesAfterFailure(t) == t - 1

\* lines 321-323, 342-350: an attempt that fails at the network level
QueryNetworkError(e) ==
    /\ pc = "q_loop"
    /\ tries > 0
    /\ QuerySend
    /\ tries' = TriesAfterFailure(tries)
    /\ q_last' = 0
    /\ slept' = self_wait_seconds
    /\ UNCHANGED <<self_tries, self_wait_seconds, pc, caller, data, username,
                   max_bookmarks, sleep_seconds, path, page_index, bookmarks, result,
                   q_http, served, page, emptyPage, pureVars, monVars,
                   cfgVars, reqVars, callVars, prev>>

\* where the caller of _query goes on with the data returned
Continuation(c) ==
    CASE c = "get_bookmarks" -> "gb_page"
      [] c = "get_url" -> "url_info"
      [] c = "get_user" -> "user_posts"
      [] c = "get_tags_of_user" -> "tags_loads"

\* lines 321, 351: the loop ends and data is returned to the caller
QueryReturn ==
    /\ pc = "q_loop"
    /\ tries <= 0
    /\ IF caller = "direct"
       THEN /\ pc' = "done"
            /\ result' = ReturnedData(data)
       ELSE /\ pc' = Continuation(caller)
            /\ UNCHANGED result
    /\ UNCHANGED <<self_tries, self_wait_seconds, caller, tries, data, username,
                   max_bookmarks, sleep_seconds, path, page_index, bookmarks,
                   q_requests, q_http, q_last, slept, gap, served, page, emptyPage,
                   pureVars, monVars, cfgVars, reqVars, callVars, sent, prev>>

\* a client calls _query(path, user=..., password=...) directly
CallQuery(user, pw) ==
    /\ pc = "idle"
    /\ api' = "_query"
    /\ caller' = "direct"
    /\ QueryCall("delicious.com", FALSE, user, pw)
    /\ UNCHANGED <<self_tries, self_wait_seconds, username, max_bookmarks,
                   sleep_seconds, path, page_index, bookmarks, result, slept, gap,
                   served, page, emptyPage, pureVars, monVars, cfgVars, password, document,
                   sent, prev>>

(***************************************************************************)
(* get_bookmarks                                                           *)
(***************************************************************************)

\* lines 486-497: the path of the first page
FirstPath(byUser) == IF byUser THEN "/user?setcount=100" ELSE "/url/hash"

\* ExtractPage starting the page with the date of the last record so far
ExtractPageCarrying(byUser, body) ==
    LET ext     == IF byUser
                   THEN extract_bookmarks_from_user_history(body)
                   ELSE extract_bookmarks_from_url_history(body)
        at      == IF byUser THEN 5 ELSE 4
        carried == IF bookmarks = <<>> THEN None ELSE bookmarks[Len(bookmarks)][at]
    IN  [ext EXCEPT !.bookmarks =
            [i \in 1..Len(ext.bookmarks) |->
                IF ext.bookmarks[i][at] = None
                THEN [ext.bookmarks[i] EXCEPT ![at] = carried]
                ELSE ext.bookmarks[i]]]

\* lines 508-511: the extractor get_bookmarks applies to a page
ExtractPage(byUser, body) ==
    IF byUser
    THEN extract_bookmarks_from_user_history(body)
    ELSE extract_bookmarks_from_url_history(body)

\* lines 515-518: paginations and nexts are both non-empty
HasNext(body) == body.pagination /\ body.next # "absent"

\* NextPath going on while the count is at most the cap
NextPathInclusive(body, bs, cap, byUser) ==
    IF /\ HasNext(body)
       /\ (cap = 0 \/ Len(bs) <= cap)
       /\ Len(bs) > 0
    THEN IF byUser THEN body.next \o "&setcount=100" ELSE body.next
    ELSE None

\* lines 514-523: the path of the next page to request, None to stop;
\* bs is bookmarks after the page's records were added
NextPath(body, bs, cap, byUser) ==
    IF /\ HasNext(body)
       /\ (cap = 0 \/ Len(bs) < cap)
       /\ Len(bs) > 0
    THEN IF byUser THEN body.next \o "&setcount=100" ELSE body.next
    ELSE None

\* Truncate returning the whole list
TruncateOff(bs, cap) == bs

\* lines 528-531: the list get_bookmarks returns
Truncate(bs, cap) == IF cap > 0 THEN Prefix(bs, cap) ELSE bs

\* SleepAllowed accepting a delay of 0
SleepAllowedZero(secs) == secs >= 0

\* lines 383, 481: assert sleep_seconds >= 1
SleepAllowed(secs) == secs >= 1

\* lines 479-502: get_bookmarks(url, username, max_bookmarks, sleep_seconds) up
\* to its loop: the parameters, the asserts and the locals
EnterGetBookmarks(hasUrl, hasUsername, cap, secs) ==
    /\ caller' = "get_bookmarks"
    /\ username' = hasUsername
    /\ max_bookmarks' = cap
    /\ sleep_seconds' = secs
    /\ IF SleepAllowed(secs) /\ hasUsername # hasUrl
       THEN /\ pc' = "gb_while"
            /\ path' = FirstPath(hasUsername)
            /\ page_index' = 1
            /\ UNCHANGED result
       ELSE /\ pc' = "done"
            /\ result' = Raised("AssertionError")
            /\ UNCHANGED <<path, page_index>>
    /\ bookmarks' = <<>>
    /\ slept' = -1
    /\ gap' = -1
    /\ served' = <<>>
    /\ page' = NoData
    /\ emptyPage' = FALSE

\* a client calls get_bookmarks(url, username, max_bookmarks, sleep_seconds)
CallGetBookmarks(hasUrl, hasUsername, cap, secs) ==
    /\ pc = "idle"
    /\ api' = "get_bookmarks"
    /\ EnterGetBookmarks(hasUrl, hasUsername, cap, secs)
    /\ UNCHANGED <<self_tries, self_wait_seconds, tries, data, q_requests, q_http,
                   q_last, pureVars, monVars, cfgVars, reqVars, password, document, sent,
                   prev>>

\* lines 503-504: the loop goes on and calls _query(path)
GbQuery ==
    /\ pc = "gb_while"
    /\ path # None
    /\ page_index <= MaxPages
    /\ QueryCall("delicious.com", FALSE, FALSE, FALSE)
    /\ UNCHANGED <<self_tries, self_wait_seconds, caller, username, max_bookmarks,
                   sleep_seconds, path, page_index, bookmarks, result, slept, gap,
                   served, page, emptyPage, pureVars, monVars, cfgVars, callVars, sent, prev>>

\* GbPage raising when _query gave no data
GbPageRaises ==
    /\ pc = "gb_page"
    /\ page' = data
    /\ IF ~Truthy(data)
       THEN /\ pc' = "done"
            /\ result' = Raised("DeliciousError")
            /\ UNCHANGED <<path, bookmarks, page_index, slept, served, emptyPage>>
       ELSE LET ext == ExtractPage(username, data)
                bs  == bookmarks \o ext.bookmarks
                nxt == NextPath(data, bs, max_bookmarks, username)
            IN  IF ext.exc # "none"
                THEN /\ pc' = "done"
                     /\ result' = Raised(ext.exc)
                     /\ UNCHANGED <<path, bookmarks, page_index, slept, served,
                                    emptyPage>>
                ELSE /\ pc' = "gb_while"
                     /\ bookmarks' = bs
                     /\ served' = Append(served, [records |-> ext.bookmarks,
                                                  next    |-> HasNext(data)])
                     /\ emptyPage' = (emptyPage \/ ext.bookmarks = <<>>)
                     /\ path' = nxt
                     /\ page_index' = IF nxt # None THEN page_index + 1 ELSE page_index
                     /\ slept' = IF nxt # None THEN Sleep(sleep_seconds) ELSE slept
                     /\ UNCHANGED result
    /\ UNCHANGED <<self_tries, self_wait_seconds, caller, tries, data, username,
                   max_bookmarks, sleep_seconds, q_requests, q_http, q_last, gap,
                   pureVars, monVars, cfgVars, reqVars, callVars, sent, prev>>

\* lines 505-527: the body of the loop after _query returned
GbPage ==
    /\ pc = "gb_page"
    /\ page' = data
    /\ IF ~Truthy(data)
       THEN /\ path' = None
            /\ pc' = "gb_while"
            /\ UNCHANGED <<bookmarks, page_index, slept, result, served, emptyPage>>
       ELSE LET ext == ExtractPage(username, data)
                bs  == bookmarks \o ext.bookmarks
                nxt == NextPath(data, bs, max_bookmarks, username)
            IN  IF ext.exc # "none"
                THEN /\ pc' = "done"
                     /\ result' = Raised(ext.exc)
                     /\ UNCHANGED <<path, bookmarks, page_index, slept, served,
                                    emptyPage>>
                ELSE /\ pc' = "gb_while"
                     /\ bookmarks' = bs
                     /\ served' = Append(served, [records |-> ext.bookmarks,
                                                  next    |-> HasNext(data)])
                     /\ emptyPage' = (emptyPage \/ ext.bookmarks = <<>>)
                     /\ path' = nxt
                     /\ page_index' = IF nxt # None THEN page_index + 1 ELSE page_index
                     /\ slept' = IF nxt # None THEN Sleep(sleep_seconds) ELSE slept
                     /\ UNCHANGED result
    /\ UNCHANGED <<self_tries, self_wait_seconds, caller, tries, data, username,
                   max_bookmarks, sleep_seconds, q_requests, q_http, q_last, gap,
                   pureVars, monVars, cfgVars, reqVars, callVars, sent, prev>>

\* lines 416-419, 736-737: what the method called returns once get_bookmarks
\* gave it the list bs: get_url its document, get_user its user
Deliver(bs) ==
    IF api = "get_url" THEN ReturnedDocument(document, bs) ELSE ReturnedBookmarks(bs)

\* lines 503, 528-531: the loop ends and the list is returned
GbReturn ==
    /\ pc = "gb_while"
    /\ path = None
    /\ pc' = "done"
    /\ result' = Deliver(Truncate(bookmarks, max_bookmarks))
    /\ UNCHANGED <<self_tries, self_wait_seconds, caller, tries, data, username,
                   max_bookmarks, sleep_seconds, path, page_index, bookmarks,
                   q_requests, q_http, q_last, slept, gap, served, page, emptyPage,
                   pureVars, monVars, cfgVars, reqVars, callVars, sent, prev>>

(***************************************************************************)
(* get_url                                                                 *)
(***************************************************************************)

\* lines 381-390: a client calls get_url(url, max_bookmarks, sleep_seconds)
CallGetUrl(cap, secs) ==
    /\ pc = "idle"
    /\ api' = "get_url"
    /\ caller' = "get_url"
    /\ max_bookmarks' = cap
    /\ sleep_seconds' = secs
    /\ document' = NoDocument
    /\ IF SleepAllowed(secs)
       THEN /\ QueryCall("feeds.delicious.com", FALSE, FALSE, FALSE)
            /\ UNCHANGED result
       ELSE /\ pc' = "done"
            /\ result' = Raised("AssertionError")
            /\ UNCHANGED <<tries, data, q_requests, q_http, q_last, reqVars>>
    /\ UNCHANGED <<self_tries, self_wait_seconds, username, path, page_index,
                   bookmarks, slept, gap, served, page, emptyPage, pureVars, monVars,
                   cfgVars, password, sent, prev>>

\* lines 391-419: get_url after _query returned the summary
UrlSummary ==
    /\ pc = "url_info"
    /\ IF ~Truthy(data)
       THEN /\ pc' = "done"
            /\ result' = ReturnedDocument(document, <<>>)
            /\ UNCHANGED <<caller, username, max_bookmarks, sleep_seconds, path,
                           page_index, bookmarks, slept, gap, served, page,
                           emptyPage, document>>
       ELSE LET info == DecodeUrlInfo(data)
            IN  IF info.exc # "none"
                THEN /\ pc' = "done"
                     /\ result' = Raised(info.exc)
                     /\ UNCHANGED <<caller, username, max_bookmarks, sleep_seconds,
                                    path, page_index, bookmarks, slept, gap, served,
                                    page, emptyPage, document>>
                ELSE /\ document' = [title           |-> info.title,
                                     top_tags        |-> info.top_tags,
                                     total_bookmarks |-> info.total_bookmarks]
                     /\ EnterGetBookmarks(TRUE, FALSE, max_bookmarks, sleep_seconds)
    /\ UNCHANGED <<self_tries, self_wait_seconds, tries, data, q_requests, q_http,
                   q_last, pureVars, monVars, cfgVars, reqVars, api, password, sent, prev>>

(***************************************************************************)
(* get_user                                                                *)
(***************************************************************************)

\* line 695: the JSON feed serves the call
FeedServes(cap) == cap > 0 /\ cap <= 100

\* lines 668-698, 736: a client calls get_user(username, password,
\* max_bookmarks, sleep_seconds)
CallGetUser(pw, cap, secs) ==
    /\ pc = "idle"
    /\ api' = "get_user"
    /\ password' = pw
    /\ IF pw \/ FeedServes(cap)
       THEN /\ caller' = "get_user"
            /\ max_bookmarks' = cap
            /\ sleep_seconds' = secs
            /\ IF pw
               THEN QueryCall("api.del.icio.us", TRUE, TRUE, TRUE)
               ELSE QueryCall("feeds.delicious.com", FALSE, TRUE, FALSE)
            /\ UNCHANGED <<username, path, page_index, bookmarks, result, slept,
                           gap, served, page, emptyPage>>
       ELSE /\ EnterGetBookmarks(FALSE, TRUE, cap, secs)
            /\ UNCHANGED <<tries, data, q_requests, q_http, q_last, reqVars>>
    /\ UNCHANGED <<self_tries, self_wait_seconds, pureVars, monVars, cfgVars, document,
                   sent, prev>>

\* lines 675-688, 699-732, 737: get_user after _query returned the feed
UserReturn ==
    /\ pc = "user_posts"
    /\ LET out == UserPosts(data, password, max_bookmarks)
       IN  result' = IF out.exc # "none"
                     THEN Raised(out.exc)
                     ELSE ReturnedBookmarks(out.bookmarks)
    /\ pc' = "done"
    /\ UNCHANGED <<self_tries, self_wait_seconds, caller, tries, data, username,
                   max_bookmarks, sleep_seconds, path, page_index, bookmarks,
                   q_requests, q_http, q_last, slept, gap, served, page, emptyPage,
                   pureVars, monVars, cfgVars, reqVars, callVars, sent, prev>>

(***************************************************************************)
(* get_tags_of_user                                                        *)
(***************************************************************************)

\* lines 751-753: a client calls get_tags_of_user(username)
CallGetTagsOfUser ==
    /\ pc = "idle"
    /\ api' = "get_tags_of_user"
    /\ caller' = "get_tags_of_user"
    /\ QueryCall("feeds.delicious.com", FALSE, FALSE, FALSE)
    /\ UNCHANGED <<self_tries, self_wait_seconds, username, max_bookmarks,
                   sleep_seconds, path, page_index, bookmarks, result, slept, gap,
                   served, page, emptyPage, pureVars, monVars, cfgVars, password, document,
                   sent, prev>>

\* lines 754-759: get_tags_of_user after _query returned the feed
TagsReturn ==
    /\ pc = "tags_loads"
    /\ result' = IF ~Truthy(data)
                 THEN ReturnedTags(<<>>)
                 ELSE IF loads(data) # "none"
                 THEN Raised(loads(data))
                 ELSE ReturnedTags(TagsOf(data))
    /\ pc' = "done"
    /\ UNCHANGED <<self_tries, self_wait_seconds, caller, tries, data, username,
                   max_bookmarks, sleep_seconds, path, page_index, bookmarks,
                   q_requests, q_http, q_last, slept, gap, served, page, emptyPage,
                   pureVars, monVars, cfgVars, reqVars, callVars, sent, prev>>

(***************************************************************************)
(* The client: one instance, one call at a time.                           *)
(***************************************************************************)

NoRet == [fn |-> "none", exc |-> "none", bookmarks |-> <<>>, title |-> "",
          top_tags |-> <<>>, total_bookmarks |-> 0, tags |-> <<>>]

NoPrev == [calls |-> 0, api |-> "none", requests |-> 0, data |-> NoData,
           result |-> NoResult]

\* lines 241-247: the defaults of the constructor's parameters
DefaultUserAgent == "DeliciousAPI/1.5.3"
DefaultTimeout == 30

\* the locals of a call and the history of its requests, before any call
NoCall ==
    /\ caller = "direct"
    /\ tries = 0
    /\ data = NoData
    /\ username = FALSE
    /\ max_bookmarks = 0
    /\ sleep_seconds = 1
    /\ path = None
    /\ page_index = 1
    /\ bookmarks = <<>>
    /\ result = NoResult
    /\ q_requests = 0
    /\ q_http = 0
    /\ q_last = -1
    /\ slept = -1
    /\ gap = -1
    /\ served = <<>>
    /\ page = NoData
    /\ emptyPage = FALSE
    /\ api = "none"
    /\ password = FALSE
    /\ document = NoDocument
    /\ q_host = None
    /\ q_ssl = FALSE
    /\ q_auth = FALSE
    /\ sent = {}

\* the locals of monitor() and run(), before a run
NoRun ==
    /\ entries = <<>>
    /\ new_entries = <<>>
    /\ index = 1
    /\ wait_seconds = -1
    /\ elapsed = 0
    /\ mon_exc = "none"
    /\ log_start = 0
    /\ out_start = 0

\* there is no monitor
MonitorOff ==
    /\ mon_pc = "off"
    /\ self_interval = 30
    /\ self_urls = <<>>
    /\ log_file = <<>>
    /\ log_exists = FALSE
    /\ output_file = <<>>
    /\ log_open = FALSE
    /\ output_open = FALSE
    /\ runs = 0
    /\ NoRun

\* lines 273-280: the constructor's asserts hold of every instance
Init ==
    /\ self_tries \in 1..MaxTries
    /\ self_wait_seconds \in WaitChoices
    /\ self_http_proxy = ""
    /\ self_user_agent = DefaultUserAgent
    /\ self_timeout = DefaultTimeout
    /\ pc = "idle"
    /\ NoCall
    /\ prev = NoPrev
    /\ arg = NoData
    /\ ret = NoRet
    /\ MonitorOff

\* the locals of the finished call are gone
Forget ==
    /\ pc' = "idle"
    /\ caller' = "direct"
    /\ tries' = 0
    /\ data' = NoData
    /\ username' = FALSE
    /\ max_bookmarks' = 0
    /\ sleep_seconds' = 1
    /\ path' = None
    /\ page_index' = 1
    /\ bookmarks' = <<>>
    /\ result' = NoResult
    /\ q_requests' = 0
    /\ q_http' = 0
    /\ q_last' = -1
    /\ slept' = -1
    /\ gap' = -1
    /\ served' = <<>>
    /\ page' = NoData
    /\ emptyPage' = FALSE
    /\ api' = "none"
    /\ password' = FALSE
    /\ document' = NoDocument
    /\ q_host' = None
    /\ q_ssl' = FALSE
    /\ q_auth' = FALSE
    /\ sent' = {}

\* the client takes the result
Finish ==
    /\ pc = "done"
    /\ Forget
    /\ UNCHANGED <<self_tries, self_wait_seconds, pureVars, monVars, cfgVars, prev>>

Next ==
    \/ \E user, pw \in BOOLEAN : CallQuery(user, pw)
    \/ \E body \in Bodies : QueryOk(body)
    \/ \E code \in ErrorCodes : QueryHTTPError(code)
    \/ \E e \in NetworkErrors : QueryNetworkError(e)
    \/ QueryReturn
    \/ \E hasUrl, hasUsername \in BOOLEAN, cap \in CapChoices, secs \in SleepChoices :
          CallGetBookmarks(hasUrl, hasUsername, cap, secs)
    \/ GbQuery
    \/ GbPage
    \/ GbReturn
    \/ \E cap \in UrlCapChoices, secs \in SleepChoices : CallGetUrl(cap, secs)
    \/ UrlSummary
    \/ \E pw \in BOOLEAN, cap \in UserCapChoices, secs \in SleepChoices :
          CallGetUser(pw, cap, secs)
    \/ UserReturn
    \/ CallGetTagsOfUser
    \/ TagsReturn
    \/ Finish

Spec == Init /\ [][Next]_vars

(***************************************************************************)
(* SpecDecode: the extractors and decoders applied to bounded inputs.      *)
(***************************************************************************)
Dated2     == Block("01 Jan 09", "another note", "http://b/", <<"web", "python">>, "carol")
NoSpanDate == Block("nospan", "a note", "http://a/", <<>>, "alice")
BadDate    == Block("yesterday", "a note", "http://a/", <<"python">>, "alice")
NoLinks    == Block("01 Jan 09", "a note", "absent", <<"web">>, "absent")
NoUserSpan == Block("absent", "absent", "absent", <<"absent">>, "nospan")
NoMeta     == Block("absent", "a note", "http://b/", <<"python">>, "nometa")

ExtractBlocks == {Dated, Dated2, Undated, NoSpanDate, BadDate, NoLinks, NoUserSpan, NoMeta}

JsonPosts ==
    {JsonPost("http://a/", "Title A", TRUE, <<"python", "web">>, "2009-01-01T10:00:00Z"),
     JsonPost("http://b/", "Title B", FALSE, <<>>, "2008-12-31T23:59:59Z"),
     JsonPost("http://b/", "absent", TRUE, <<>>, "2009-01-01T10:00:00Z"),
     JsonPost("absent", "Title B", TRUE, <<"web">>, "absent")}

XmlPosts ==
    {XmlPost("http://a/", "Title A", "a note", "python web", "2009-01-01T10:00:00Z"),
     XmlPost("http://b/", "Title B", "", "", "2008-12-31T23:59:59Z"),
     XmlPost("http://b/", "", "", "python", "2009-01-01T10:00:00Z"),
     XmlPost("http://a/", "Title A", "", "absent", "2009-01-01T10:00:00Z")}

SeqsUpTo(S, n) == UNION {[1..k -> S] : k \in 0..n}

PageArgs ==
    {[Page(bs, FALSE, "absent") EXCEPT !.ul = ul] :
        bs \in SeqsUpTo(ExtractBlocks, MaxBlocks), ul \in BOOLEAN}

JsonArgs == {[NoData EXCEPT !.kind = "json", !.posts = ps] : ps \in SeqsUpTo(JsonPosts, MaxPosts)}

XmlArgs == {[NoData EXCEPT !.kind = "xml", !.posts = ps] : ps \in SeqsUpTo(XmlPosts, MaxPosts)}

\* the (tag, count) members a top_tags map may have, in the order the dict
\* yields them: no tag twice
TagNames == {"python", "web", "api"}
TopTagsChoices ==
    {tt \in SeqsUpTo(TagNames \X {1, 2}, Min(MaxTags, Cardinality(TagNames))) :
        \A i, j \in 1..Len(tt) : i # j => tt[i][1] # tt[j][1]}

InfoArgs ==
    {InfoBody(<<UrlInfo(title, TRUE, tt, total)>>) :
        title \in {"absent", None, "Title"}, tt \in TopTagsChoices,
        total \in {"absent", "5", "n/a"}}
      \cup {InfoBody(<<UrlInfo("Title", FALSE, <<>>, "12")>>), InfoBody(<<>>), Garbage}

\* the tag lists of the bookmarks given to get_tags
TagLists == {<<>>, <<"python">>, <<"web", "python">>, <<"python", "python">>}

\* a DeliciousURL or DeliciousUser object: its class and its bookmarks (and
\* the fields of a body, left empty)
Tagged(class, bs) == [kind |-> "object", class |-> class, bookmarks |-> bs] @@ NoData

UrlObjects ==
    {Tagged("DeliciousURL", bs) :
        bs \in SeqsUpTo({<<"alice", tags, "", None>> : tags \in TagLists}, MaxBookmarks)}

UserObjects ==
    {Tagged("DeliciousUser", bs) :
        bs \in SeqsUpTo({<<"http://a/", tags, "Title A", "", None>> : tags \in TagLists},
                        MaxBookmarks)}

Applied(fn, out) == [NoRet EXCEPT !.fn = fn, !.exc = out.exc, !.bookmarks = out.bookmarks]

AppliedInfo(out) ==
    [NoRet EXCEPT !.fn = "urlinfo", !.exc = out.exc, !.title = out.title,
                  !.top_tags = out.top_tags, !.total_bookmarks = out.total_bookmarks]

\* lines 391-415 applied to the body of a URL summary
DoDecodeUrlInfo ==
    /\ arg.kind \in {"urlinfo", "garbage"}
    /\ ret = NoRet
    /\ ret' = AppliedInfo(DecodeUrlInfo(arg))
    /\ UNCHANGED <<apiVars, monVars, arg>>

\* lines 533-581 applied to a page
DoExtractUrlHistory ==
    /\ arg.kind = "page"
    /\ ret = NoRet
    /\ ret' = Applied("url_history", extract_bookmarks_from_url_history(arg))
    /\ UNCHANGED <<apiVars, monVars, arg>>

\* lines 583-628 applied to a page
DoExtractUserHistory ==
    /\ arg.kind = "page"
    /\ ret = NoRet
    /\ ret' = Applied("user_history", extract_bookmarks_from_user_history(arg))
    /\ UNCHANGED <<apiVars, monVars, arg>>

\* lines 704-731 applied to the posts of a JSON feed
DoDecodeUserFeed ==
    /\ arg.kind = "json"
    /\ ret = NoRet
    /\ ret' = Applied("user_feed", DecodeUserFeed(arg))
    /\ UNCHANGED <<apiVars, monVars, arg>>

\* lines 677-687 applied to the posts of the full-history feed
DoDecodeAllPosts ==
    /\ arg.kind = "xml"
    /\ ret = NoRet
    /\ ret' = Applied("all_posts", DecodeAllPosts(arg))
    /\ UNCHANGED <<apiVars, monVars, arg>>

\* lines 126-140, 204-218: the tags property read on an object
DoGetTags ==
    /\ arg.kind = "object"
    /\ ret = NoRet
    /\ ret' = [NoRet EXCEPT !.fn = "get_tags",
                            !.tags = IF arg.class = "DeliciousURL"
                                     THEN DeliciousURL_get_tags(arg.bookmarks)
                                     ELSE DeliciousUser_get_tags(arg.bookmarks)]
    /\ UNCHANGED <<apiVars, monVars, arg>>

InitDecode ==
    /\ self_tries = 1
    /\ self_wait_seconds = 0
    /\ self_http_proxy = ""
    /\ self_user_agent = DefaultUserAgent
    /\ self_timeout = DefaultTimeout
    /\ pc = "idle"
    /\ NoCall
    /\ prev = NoPrev
    /\ arg \in PageArgs \cup JsonArgs \cup XmlArgs \cup InfoArgs \cup UrlObjects
                \cup UserObjects
    /\ ret = NoRet
    /\ MonitorOff

NextDecode ==
    \/ DoExtractUrlHistory
    \/ DoExtractUserHistory
    \/ DoDecodeUserFeed
    \/ DoDecodeAllPosts
    \/ DoDecodeUrlInfo
    \/ DoGetTags

SpecDecode == InitDecode /\ [][NextDecode]_vars

(***************************************************************************)
(* SpecSession: an instance is constructed and called several times.       *)
(***************************************************************************)

\* lines 273-275: the asserts of the constructor
CtorAccepts(t, w, timeout) == t >= 1 /\ w >= 0 /\ timeout >= 0

InitSession ==
    /\ self_tries = 0
    /\ self_wait_seconds = 0
    /\ self_http_proxy = ""
    /\ self_user_agent = ""
    /\ self_timeout = 0
    /\ pc = "new"
    /\ NoCall
    /\ prev = NoPrev
    /\ arg = NoData
    /\ ret = NoRet
    /\ MonitorOff

\* lines 241-281: DeliciousAPI(http_proxy, tries, wait_seconds, user_agent, timeout)
Construct(http_proxy, t, w, user_agent, timeout) ==
    /\ pc = "new"
    /\ IF CtorAccepts(t, w, timeout)
       THEN /\ pc' = "idle"
            /\ self_http_proxy' = http_proxy
            /\ self_tries' = t
            /\ self_wait_seconds' = w
            /\ self_user_agent' = user_agent
            /\ self_timeout' = timeout
            /\ UNCHANGED result
       ELSE /\ pc' = "failed"
            /\ result' = Raised("AssertionError")
            /\ UNCHANGED <<self_tries, self_wait_seconds, cfgVars>>
    /\ UNCHANGED <<caller, tries, data, username, max_bookmarks, sleep_seconds,
                   path, page_index, bookmarks, q_requests, q_http, q_last, slept,
                   gap, served, page, emptyPage, pureVars, monVars, reqVars, callVars, sent,
                   prev>>

\* the client takes the result and goes on using the instance
FinishSession ==
    /\ pc = "done"
    /\ prev.calls < MaxCalls
    /\ Forget
    /\ prev' = [calls    |-> prev.calls + 1,
                api      |-> api,
                requests |-> q_requests,
                data     |-> data,
                result   |-> result]
    /\ UNCHANGED <<self_tries, self_wait_seconds, pureVars, monVars, cfgVars>>

NextSession ==
    \/ \E http_proxy \in {"", "localhost:8080"}, t \in 0..MaxTries, w \in {-1, 3},
          timeout \in {-1, DefaultTimeout} :
          Construct(http_proxy, t, w, DefaultUserAgent, timeout)
    \/ CallQuery(FALSE, FALSE)
    \/ CallGetTagsOfUser
    \/ \E body \in Bodies : QueryOk(body)
    \/ \E code \in ErrorCodes : QueryHTTPError(code)
    \/ \E e \in NetworkErrors : QueryNetworkError(e)
    \/ QueryReturn
    \/ TagsReturn
    \/ FinishSession

SpecSession == InitSession /\ [][NextSession]_vars

(***************************************************************************)
(* DeliciousMonitor (src/deliciousmonitor.py): run() calls monitor() and   *)
(* sleeps, for ever; monitor() reads the log, filters the entries of the   *)
(* RSS feed and calls get_url of its DeliciousAPI instance for each new    *)
(* entry. The files can be opened, read and written; a link of the feed    *)
(* has no leading or trailing whitespace.                                  *)
(***************************************************************************)

\* lines 243-244 and 354 of deliciousapi.py: the defaults of DeliciousAPI(),
\* which line 66 calls, and those of get_url, which line 164 calls
DefaultTries == 3
DefaultWaitSeconds == 3
DefaultMaxBookmarks == 50
DefaultSleepSeconds == 1

\* line 178: the line written to the log for url
LogLine(url) == url \o "\n"

\* line 121: line.strip() of a line of the log
strip(line) ==
    IF Len(line) > 0 /\ SubSeq(line, Len(line), Len(line)) = "\n"
    THEN SubSeq(line, 1, Len(line) - 1)
    ELSE line

\* line 121: [line.strip() for line in log_file.readlines()]
ReadLog(lines) == [i \in 1..Len(lines) |-> strip(lines[i])]

\* the elements of a list
Range(list) == {list[i] : i \in 1..Len(list)}

\* NewEntries keeping every entry of the feed
NewEntriesAll(f_entries, urls) == f_entries

\* lines 149-151: the entries of the feed whose link is not in self.urls
NewEntries(f_entries, urls) ==
    SelectSeq(f_entries, LAMBDA link : link \notin Range(urls))

\* lines 180-183: the <document> element written to the output file
DocumentRecord(url, doc) ==
    [url |-> url, users |-> doc.total_bookmarks, top_tags |-> Len(doc.top_tags),
     top_tag |-> doc.top_tags]

\* lines 794-847 of deliciousapi.py: the classes derived from DeliciousError,
\* which line 165 of deliciousmonitor.py catches
IsDeliciousError(exc) ==
    exc \in {"DeliciousError", "DeliciousThrottleError", "DeliciousUnknownError",
             "DeliciousUnauthorizedError", "DeliciousNotFoundError",
             "Delicious500Error"}

\* Times are counted in milliseconds.
\* line 88: datetime.timedelta(seconds=60*self.interval)
IntervalDelta(minutes) == 60 * minutes * 1000

\* the attribute seconds of a timedelta that is not negative: its days and
\* its fraction of a second are not part of it
TimedeltaSeconds(delta) == (delta \div 1000) % 86400

\* lines 88-97: wait_seconds of run(), given elapsed
WaitSeconds(minutes, run_time) ==
    IF IntervalDelta(minutes) >= run_time
    THEN TimedeltaSeconds(IntervalDelta(minutes) - run_time)
    ELSE 3

\* the links of the feed, the feeds and the intervals of the model, and how
\* long a run may take
Links == {"http://a/", "http://b/"}
Feeds == SeqsUpTo(Links, MaxEntries)
IntervalChoices == {30, 2880}
ElapsedChoices(minutes) ==
    {1000, IntervalDelta(minutes) - 500, IntervalDelta(minutes),
     IntervalDelta(minutes) + 1000}

\* the HTTP error statuses and the network failure of the model of the monitor
MonitorCodes == {301, 404, 999}
MonitorNetworkErrors == {"URLError"}

\* the locals of monitor() are gone
ForgetRun ==
    /\ entries' = <<>>
    /\ new_entries' = <<>>
    /\ index' = 1
    /\ mon_exc' = "none"
    /\ log_start' = 0
    /\ out_start' = 0

\* lines 46-74 and 76-78: DeliciousMonitor(interval=minutes).run() in a
\* directory without log and output file
InitMonitor ==
    /\ self_tries = DefaultTries
    /\ self_wait_seconds = DefaultWaitSeconds
    /\ self_http_proxy = ""
    /\ self_user_agent = DefaultUserAgent
    /\ self_timeout = DefaultTimeout
    /\ pc = "idle"
    /\ NoCall
    /\ prev = NoPrev
    /\ arg = NoData
    /\ ret = NoRet
    /\ mon_pc = "run"
    /\ self_interval \in IntervalChoices
    /\ self_urls = <<>>
    /\ log_file = <<>>
    /\ log_exists = FALSE
    /\ output_file = <<>>
    /\ log_open = FALSE
    /\ output_open = FALSE
    /\ runs = 0
    /\ NoRun

\* lines 105-154: monitor() up to its loop over the new entries
MonitorBegin(f_entries) ==
    /\ mon_pc = "run"
    /\ runs < MaxRuns
    /\ runs' = runs + 1
    /\ entries' = f_entries
    /\ output_open' = TRUE
    /\ self_urls' = IF log_exists THEN ReadLog(log_file) ELSE self_urls
    /\ log_open' = TRUE
    /\ log_exists' = TRUE
    /\ new_entries' = NewEntries(f_entries, self_urls')
    /\ index' = 1
    /\ mon_exc' = "none"
    /\ log_start' = Len(log_file)
    /\ out_start' = Len(output_file)
    /\ mon_pc' = "loop"
    /\ UNCHANGED <<apiVars, pureVars, self_interval, log_file, output_file,
                   wait_seconds, elapsed>>

\* lines 157-164: the loop takes the next new entry and calls get_url(url)
MonitorGetUrl ==
    /\ mon_pc = "loop"
    /\ index <= Len(new_entries)
    /\ CallGetUrl(DefaultMaxBookmarks, DefaultSleepSeconds)

\* lines 164-184: get_url ended: the except clause, or the writes to the log
\* and to the output file
MonitorEntryDone ==
    /\ mon_pc = "loop"
    /\ pc = "done"
    /\ LET url == new_entries[index]
       IN  IF result.kind = "returned"
           THEN /\ log_file' = Append(log_file, LogLine(url))
                /\ output_file' = Append(output_file, DocumentRecord(url, result))
                /\ index' = index + 1
                /\ UNCHANGED <<mon_pc, mon_exc, log_open, output_open>>
           ELSE /\ mon_exc' = result.exc
                /\ IF IsDeliciousError(result.exc)
                   THEN /\ output_open' = FALSE
                        /\ log_open' = FALSE
                        /\ mon_pc' = "returned"
                   ELSE /\ mon_pc' = "crashed"
                        /\ UNCHANGED <<log_open, output_open>>
                /\ UNCHANGED <<log_file, output_file, index>>
    /\ Forget
    /\ UNCHANGED <<self_tries, self_wait_seconds, pureVars, cfgVars, prev,
                   self_interval, self_urls, log_exists, entries, new_entries,
                   runs, wait_seconds, elapsed, log_start, out_start>>

\* lines 186-188: the loop is over, both files are closed
MonitorEnd ==
    /\ mon_pc = "loop"
    /\ pc = "idle"
    /\ index > Len(new_entries)
    /\ output_open' = FALSE
    /\ log_open' = FALSE
    /\ mon_pc' = "returned"
    /\ UNCHANGED <<apiVars, pureVars, self_interval, self_urls, log_file,
                   log_exists, output_file, entries, new_entries, index, runs,
                   wait_seconds, elapsed, mon_exc, log_start, out_start>>

\* lines 84-103: monitor() returned after run_time; run() computes
\* wait_seconds and sleeps
RunSleep(run_time) ==
    /\ mon_pc = "returned"
    /\ elapsed' = run_time
    /\ wait_seconds' = WaitSeconds(self_interval, run_time)
    /\ mon_pc' = "sleeping"
    /\ ForgetRun
    /\ UNCHANGED <<apiVars, pureVars, self_interval, self_urls, log_file,
                   log_exists, output_file, log_open, output_open, runs>>

\* lines 103, 78: the sleep is over, the loop of run() starts again
RunWake ==
    /\ mon_pc = "sleeping"
    /\ mon_pc' = "run"
    /\ wait_seconds' = -1
    /\ elapsed' = 0
    /\ UNCHANGED <<apiVars, pureVars, self_interval, self_urls, log_file,
                   log_exists, output_file, log_open, output_open, runs, entries,
                   new_entries, index, mon_exc, log_start, out_start>>

\* lines 191-193: after an exception ended run(), the program is started
\* again in the same directory
Restart ==
    /\ mon_pc = "crashed"
    /\ mon_pc' = "run"
    /\ self_urls' = <<>>
    /\ log_open' = FALSE
    /\ output_open' = FALSE
    /\ ForgetRun
    /\ UNCHANGED <<apiVars, pureVars, self_interval, log_file, log_exists,
                   output_file, runs, wait_seconds, elapsed>>

NextMonitor ==
    \/ \E f_entries \in Feeds : MonitorBegin(f_entries)
    \/ MonitorGetUrl
    \/ \E body \in Bodies : QueryOk(body)
    \/ \E code \in MonitorCodes : QueryHTTPError(code)
    \/ \E e \in MonitorNetworkErrors : QueryNetworkError(e)
    \/ QueryReturn
    \/ UrlSummary
    \/ GbQuery
    \/ GbPage
    \/ GbReturn
    \/ MonitorEntryDone
    \/ MonitorEnd
    \/ \E run_time \in ElapsedChoices(self_interval) : RunSleep(run_time)
    \/ RunWake
    \/ Restart

SpecMonitor == InitMonitor /\ [][NextMonitor]_vars

(***************************************************************************)
(* Properties of _query and get_bookmarks, checked under Spec.             *)
(***************************************************************************)

\* The status table of the transport: the exception each status is signalled with.
StatusTable ==
    [code \in ErrorCodes |->
        CASE code = 301 -> "DeliciousMovedPermanentlyWarning"
          [] code = 302 -> "DeliciousMovedTemporarilyWarning"
          [] code = 401 -> "DeliciousUnauthorizedError"
          [] code = 404 -> "DeliciousNotFoundError"
          [] code = 500 -> "Delicious500Error"
          [] code \in {503, 999} -> "DeliciousThrottleError"
          [] OTHER -> "DeliciousUnknownError"]

HTTPExceptions == {StatusTable[code] : code \in ErrorCodes}

RECURSIVE Concat(_)
Concat(pages) ==
    IF pages = <<>> THEN <<>> ELSE Head(pages).records \o Concat(Tail(pages))

\* number of records of the first k extracted pages
Count(k) == Len(Concat(SubSeq(served, 1, k)))

\* C1: within one _query call no request follows a received HTTP response:
\* the call receives at most one HTTP response, and that response is the last
\* thing the call receives (every earlier attempt failed at the network level).
C1_NoRequestAfterResponse ==
    /\ q_http <= 1
    /\ (q_http = 1 => q_last # 0)

C3_NetworkFailureExhaustsTries ==
    /\ q_requests <= self_tries
    /\ (pc = "q_loop" /\ tries <= 0 /\ q_http = 0 =>
            q_requests = self_tries /\ data = NoData)
    /\ (pc = "done" /\ caller = "direct" /\ q_http = 0 =>
            /\ q_requests = self_tries
            /\ result = ReturnedData(NoData))

C3_Witness ==
    /\ pc = "done"
    /\ caller = "direct"
    /\ self_tries = 2
    /\ q_http = 0
    /\ q_requests = 2
    /\ result = ReturnedData(NoData)

\* C4: once a page with 0 records was extracted, get_bookmarks has no further
\* page to request, whatever it accumulated before.
C4_EmptyPageHalts == emptyPage => path = None

\* C5: after a page was extracted, get_bookmarks goes on to request a page
\* exactly when the page has a next link, the cap is 0 or above the number of
\* records retrieved so far, and at least one record was retrieved so far;
\* it sends page requests only for a path set that way (or the first path).
C5_ContinueIff ==
    /\ (pc = "gb_while" /\ Truthy(page) =>
            (path # None <=>
                /\ HasNext(page)
                /\ (max_bookmarks = 0 \/ Len(bookmarks) < max_bookmarks)
                /\ Len(bookmarks) > 0))
    /\ (pc = "gb_while" /\ ~Truthy(page) /\ page_index > 1 => path = None)
    /\ (pc = "q_loop" /\ caller = "get_bookmarks" => path # None)

C5_Witness ==
    /\ pc = "q_loop"
    /\ caller = "get_bookmarks"
    /\ page_index = 2
    /\ q_requests = 1
    /\ HasNext(page)
    /\ max_bookmarks = 3
    /\ Len(bookmarks) = 2

\* every extracted page had a next link and at least one record
AllPagesGoOn == \A i \in 1..Len(served) : served[i].next /\ served[i].records # <<>>

\* C6: with a cap > 0 a page is requested only while the records of the
\* pages before it are fewer than the cap, and the call returns the first cap
\* records of the extracted pages' records in fetch order; when every page had
\* a next link and a record and the last fetch gave a page, the pages fetched
\* are exactly those needed to reach the cap and exactly cap records are
\* returned.  With cap = 0 the whole concatenation is returned.
C6_CapTruncation ==
    /\ (caller = "get_bookmarks" /\ max_bookmarks > 0 =>
            \A k \in 1..(Len(served) - 1) : Count(k) < max_bookmarks)
    /\ (pc = "done" /\ caller = "get_bookmarks" /\ result.kind = "returned" =>
            /\ max_bookmarks > 0 =>
                   result.bookmarks = Prefix(Concat(served), max_bookmarks)
            /\ max_bookmarks > 0 /\ AllPagesGoOn /\ Truthy(page) =>
                   /\ Len(result.bookmarks) = max_bookmarks
                   /\ Count(Len(served)) >= max_bookmarks
            /\ max_bookmarks = 0 => result.bookmarks = Concat(served))

\* cap = 120 and pages of 50/50/50, all with a next link: 3 pages, 120 records
C6_Witness ==
    /\ pc = "done"
    /\ caller = "get_bookmarks"
    /\ max_bookmarks = 120
    /\ Len(served) = 3
    /\ page_index = 3
    /\ \A i \in 1..3 : served[i].next /\ Len(served[i].records) = 50
    /\ result.kind = "returned"
    /\ Len(result.bookmarks) = 120

\* C7: any two successive page requests of one get_bookmarks call are at least
\* sleep_seconds of sleep apart.
C7_MinimumDelay == gap = -1 \/ gap >= sleep_seconds

IsMarker(b) == b.dateGroup \notin {"absent", "nospan"}

Max(S) == CHOOSE m \in S : \A k \in S : k <= m

\* the date of the most recent marker at or before block j of the page, None if none
LastMarker(blocks, j) ==
    LET S == {k \in 1..j : IsMarker(blocks[k])}
    IN  IF S = {} THEN None ELSE StrpTime(blocks[Max(S)].dateGroup)

\* the blocks of a URL-history page that give a record: those with a user link
UserLinked(blocks) == {k \in 1..Len(blocks) : blocks[k].meta /\ blocks[k].userlink # "absent"}

\* the i-th smallest element of S
Nth(S, i) == CHOOSE k \in S : Cardinality({m \in S : m <= k}) = i

Untagged(b) == ~b.tagdisplay \/ b.tags = <<>>

\* C9: in both extractors the date of each record is the date of the most
\* recent date marker at or before the record's block on that page (None when
\* there is none).
C9_DateCarryForward ==
    /\ (ret.fn = "url_history" /\ ret.exc = "none" =>
            /\ Len(ret.bookmarks) = Cardinality(UserLinked(arg.blocks))
            /\ \A i \in 1..Len(ret.bookmarks) :
                   ret.bookmarks[i][4] =
                       LastMarker(arg.blocks, Nth(UserLinked(arg.blocks), i)))
    /\ (ret.fn = "user_history" /\ ret.exc = "none" /\ arg.ul =>
            /\ Len(ret.bookmarks) = Len(arg.blocks)
            /\ \A i \in 1..Len(ret.bookmarks) :
                   ret.bookmarks[i][5] = LastMarker(arg.blocks, i))

\* blocks B1 (marker D1), B2 (no marker), B3 (marker D2), B4 (no marker)
C9_Witness ==
    /\ arg.blocks = <<Dated, Undated, Dated2, Undated>>
    /\ ret.fn = "url_history"
    /\ ret.exc = "none"
    /\ [i \in 1..4 |-> ret.bookmarks[i][4]] =
           <<"2008-12-31 00:00:00", "2008-12-31 00:00:00",
             "2009-01-01 00:00:00", "2009-01-01 00:00:00">>

\* C10: a post of the user JSON feed whose tag list is absent or empty gets
\* the tags ["system:unfiled"], whatever the posts before it are; an untagged
\* bookmark block of an HTML page and an untagged post of the full-history
\* feed get the tags [].
C10_UntaggedSentinel ==
    /\ (ret.fn = "user_feed" /\ ret.exc = "none" =>
            \A i \in 1..Len(arg.posts) :
                (~arg.posts[i].hasT \/ arg.posts[i].t = <<>>) =>
                    ret.bookmarks[i][2] = <<"system:unfiled">>)
    /\ (ret.fn = "all_posts" /\ ret.exc = "none" =>
            \A i \in 1..Len(arg.posts) :
                arg.posts[i].tag = "" => ret.bookmarks[i][2] = <<>>)
    /\ (ret.fn = "user_history" /\ ret.exc = "none" /\ arg.ul =>
            \A i \in 1..Len(arg.blocks) :
                Untagged(arg.blocks[i]) => ret.bookmarks[i][2] = <<>>)
    /\ (ret.fn = "url_history" /\ ret.exc = "none" =>
            \A i \in 1..Len(ret.bookmarks) :
                Untagged(arg.blocks[Nth(UserLinked(arg.blocks), i)]) =>
                    ret.bookmarks[i][2] = <<>>)

(***************************************************************************)
(* Properties of get_url, get_user and get_tags_of_user, checked under     *)
(* Spec.                                                                   *)
(***************************************************************************)

\* the body of the feed is the empty string or is not JSON
Malformed(body) == body.kind \in {"empty", "garbage"}

\* the running call took the public JSON path of get_user
PublicFeedCall == api = "get_user" /\ ~password /\ caller = "get_user"

\* C11: when the last thing the feed request of get_url, of get_user (public
\* JSON path) or of get_tags_of_user received is a 200 response whose body is
\* empty or not JSON, the call returns the empty result (a document without
\* title, top tags and bookmarks; no bookmarks; the empty tag map) and does
\* not raise.
C11_MalformedPayloadEmptyResult ==
    pc = "done" /\ q_last = 200 /\ Malformed(data) =>
        /\ (api = "get_url" /\ caller = "get_url" =>
                result = ReturnedDocument(NoDocument, <<>>))
        /\ (PublicFeedCall => result = ReturnedBookmarks(<<>>))
        /\ (api = "get_tags_of_user" => result = ReturnedTags(<<>>))

\* C13: a get_url call that returns has called get_bookmarks after the
\* summary request, and the bookmarks of its document are the list that
\* get_bookmarks call returned.
C13_UrlDelegatesToGetBookmarks ==
    pc = "done" /\ api = "get_url" /\ result.kind = "returned" =>
        /\ caller = "get_bookmarks"
        /\ result.bookmarks = Truncate(bookmarks, max_bookmarks)

\* the kinds of request the methods issue
FeedRequest == [host |-> "feeds.delicious.com", ssl |-> FALSE, auth |-> FALSE]
PageRequest == [host |-> "delicious.com", ssl |-> FALSE, auth |-> FALSE]
AllPostsRequest == [host |-> "api.del.icio.us", ssl |-> TRUE, auth |-> TRUE]

\* C14: a get_user call without password and with 0 < max_bookmarks <= 100
\* issues requests to the JSON feed only and a single one of them is answered
\* (the others are attempts that failed at the network level); with
\* max_bookmarks above 100 (or 0, no limit) it issues page requests only.
C14_UserSourceByVolume ==
    api = "get_user" /\ ~password =>
        IF max_bookmarks > 0 /\ max_bookmarks <= 100
        THEN sent \subseteq {FeedRequest} /\ q_http <= 1
        ELSE sent \subseteq {PageRequest}

\* C15: a get_user call with password issues requests to the full-history
\* endpoint only, over TLS and with the credentials, a single one of them is
\* answered (the others are attempts that failed at the network level), and
\* the call returns a record for every post of the response whatever
\* max_bookmarks is.
C15_AuthenticatedFullHistory ==
    api = "get_user" /\ password =>
        /\ sent \subseteq {AllPostsRequest}
        /\ q_http <= 1
        /\ (pc = "done" /\ result.kind = "returned" =>
                Len(result.bookmarks) = Len(data.posts))

\* C16: a get_user call without password and with 0 < max_bookmarks <= 100
\* that returns from a feed of n posts returns min(n, max_bookmarks) records,
\* the i-th made of the i-th post: its url, and its date when the post has a
\* dt field.
C16_FeedRecords ==
    /\ pc = "done"
    /\ PublicFeedCall
    /\ result.kind = "returned"
    /\ data.kind = "json"
    => /\ Len(result.bookmarks) = Min(Len(data.posts), max_bookmarks)
       /\ \A i \in 1..Len(result.bookmarks) :
              /\ data.posts[i].u # "absent" => result.bookmarks[i][1] = data.posts[i].u
              /\ data.posts[i].dt # "absent" =>
                     result.bookmarks[i][5] = StrpTimeISO(data.posts[i].dt)

\* 3 posts and max_bookmarks = 100 give 3 records
C16_Witness ==
    /\ pc = "done"
    /\ PublicFeedCall
    /\ max_bookmarks = 100
    /\ data = JsonFeed(<<PostB, PostA, PostC>>)
    /\ result.kind = "returned"
    /\ Len(result.bookmarks) = 3
    /\ result.bookmarks[1][5] = "2008-12-31 23:59:59"
    /\ result.bookmarks[2][5] = "2009-01-01 10:00:00"

\* the running call paginates: get_url, get_bookmarks, or get_user falling
\* back to get_bookmarks
Paginating ==
    \/ api \in {"get_url", "get_bookmarks"}
    \/ api = "get_user" /\ ~password /\ ~(max_bookmarks > 0 /\ max_bookmarks <= 100)

\* C18: a paginating call with sleep_seconds below 1 ends with AssertionError
\* without having issued any request, and no request of get_bookmarks is
\* issued by a call whose sleep_seconds is below 1.
C18_DelayPrecondition ==
    /\ (Paginating /\ sleep_seconds < 1 =>
            /\ pc = "done"
            /\ result = Raised("AssertionError")
            /\ sent = {})
    /\ (caller = "get_bookmarks" /\ sent # {} => sleep_seconds >= 1)

C18_Witness ==
    /\ api = "get_user"
    /\ ~password
    /\ max_bookmarks = 101
    /\ sleep_seconds = 0
    /\ pc = "done"
    /\ result = Raised("AssertionError")
    /\ sent = {}

(***************************************************************************)
(* Properties of the decoders, checked under SpecDecode.                   *)
(***************************************************************************)

\* every date marker of the page carries a date that parses
DatesParse(blocks) ==
    \A k \in 1..Len(blocks) :
        IsMarker(blocks[k]) => StrpTime(blocks[k].dateGroup) # "ValueError"

\* C12: on a page whose blocks only miss elements, both extractors give one
\* record per block without raising, and the comment, tags, user, url and
\* title of a record are the block's own or the default when the block has
\* no such element.
C12_MissingElementDefaults ==
    /\ (ret.fn = "url_history" /\ DatesParse(arg.blocks) =>
            /\ ret.exc = "none"
            /\ Len(ret.bookmarks) = Len(arg.blocks)
            /\ \A i \in 1..Len(arg.blocks) :
                   LET b == arg.blocks[i]
                   IN  /\ ret.bookmarks[i][1] =
                              (IF b.meta /\ b.userlink \notin {"absent", "nospan"}
                               THEN b.userlink
                               ELSE "")
                       /\ ret.bookmarks[i][2] = BlockTags(b)
                       /\ ret.bookmarks[i][3] = BlockComment(b))
    /\ (ret.fn = "user_history" /\ arg.ul /\ DatesParse(arg.blocks) =>
            /\ ret.exc = "none"
            /\ Len(ret.bookmarks) = Len(arg.blocks)
            /\ \A i \in 1..Len(arg.blocks) :
                   LET b == arg.blocks[i]
                       linked == b.data /\ b.taggedlink # "absent"
                   IN  /\ ret.bookmarks[i][1] = (IF linked THEN b.taggedlink ELSE "")
                       /\ ret.bookmarks[i][2] = BlockTags(b)
                       /\ ret.bookmarks[i][3] =
                              (IF linked THEN LinkTitle(b.taggedlink) ELSE "")
                       /\ ret.bookmarks[i][4] = BlockComment(b))

\* the place of pair p in the list items
Pos(items, p) == CHOOSE k \in 1..Len(items) : items[k] = p

\* C17: the top_tags get_url stores are exactly the (tag, count) pairs of the
\* summary's top_tags map, in non-increasing order of count, pairs of equal
\* count in the order the map yields them.
C17_TopTagsSorted ==
    ret.fn = "urlinfo" /\ ret.exc = "none" =>
        LET urlinfo == arg.infos[1]
            items   == IF urlinfo.hasTopTags THEN urlinfo.top_tags ELSE <<>>
            tt      == ret.top_tags
        IN  /\ Len(tt) = Len(items)
            /\ {tt[i] : i \in 1..Len(tt)} = {items[i] : i \in 1..Len(items)}
            /\ \A i, j \in 1..Len(tt) :
                   i < j =>
                       /\ tt[i][2] >= tt[j][2]
                       /\ tt[i][2] = tt[j][2] => Pos(items, tt[i]) < Pos(items, tt[j])

C17_Witness ==
    /\ ret.fn = "urlinfo"
    /\ ret.exc = "none"
    /\ Len(arg.infos) = 1
    /\ arg.infos[1].top_tags = <<<<"web", 1>>, <<"python", 2>>, <<"api", 2>>>>
    /\ ret.top_tags = <<<<"python", 2>>, <<"api", 2>>, <<"web", 1>>>>

(***************************************************************************)
(* Properties of an instance over several calls, checked under SpecSession.*)
(***************************************************************************)

\* the constructor returned an instance
Constructed == pc \notin {"new", "failed"}

\* C19: an instance exists only with tries >= 1, wait_seconds >= 0 and
\* timeout >= 0; once constructed, no step changes its proxy, tries,
\* wait_seconds, user agent or timeout; and every _query call enters its loop
\* with tries = self.tries, whatever the calls before it used.
C19_ConfigurationImmutable ==
    /\ [](Constructed =>
              self_tries >= 1 /\ self_wait_seconds >= 0 /\ self_timeout >= 0)
    /\ [][Constructed =>
              UNCHANGED <<self_http_proxy, self_tries, self_wait_seconds,
                          self_user_agent, self_timeout>>]_vars
    /\ [](pc = "q_loop" /\ q_requests = 0 => tries = self_tries)

\* a second call starts with 2 tries after the first call used its 2 attempts
C19_Witness ==
    /\ pc = "q_loop"
    /\ q_requests = 0
    /\ prev.calls = 1
    /\ prev.requests = 2
    /\ self_tries = 2
    /\ tries = 2

\* C20: the map a get_tags_of_user call returns is the map of the response
\* it received; a call that receives the same response as the get_tags_of_user
\* call before it on the instance returns the same map.
C20_TagsIdempotent ==
    pc = "done" /\ api = "get_tags_of_user" /\ result.kind = "returned" =>
        /\ result.tags = (IF data.kind = "tagmap" THEN data.tagmap ELSE <<>>)
        /\ (/\ prev.api = "get_tags_of_user"
            /\ prev.result.kind = "returned"
            /\ prev.data = data
            => result.tags = prev.result.tags)

C20_Witness ==
    /\ pc = "done"
    /\ api = "get_tags_of_user"
    /\ prev.api = "get_tags_of_user"
    /\ prev.data = data
    /\ data = TagMap(<<<<"python", 3>>, <<"web", 1>>>>)
    /\ prev.result.tags = data.tagmap
    /\ result.tags = data.tagmap

(***************************************************************************)
(* Properties of the page loop of get_bookmarks and of the decoding of     *)
(* get_url and get_user, continued.                                        *)
(***************************************************************************)

\* C25: a get_bookmarks call with max_bookmarks > 0 fetches at most
\* max_bookmarks pages, whatever the pages hold (pages with a next link and
\* no record included).
C25_PageFetchesBoundedByCap ==
    caller = "get_bookmarks" /\ max_bookmarks > 0 => page_index <= max_bookmarks

\* the request of page k > 1 ended with every attempt failed at the network
\* level: _query gave None to the loop
PageRetriesExhausted ==
    /\ caller = "get_bookmarks"
    /\ page_index > 1
    /\ pc \in {"gb_while", "done"}
    /\ page = NoData
    /\ q_http = 0
    /\ q_last = 0

\* C26: when every attempt for page k > 1 failed at the network level, the
\* loop requests no further page and the call returns, without raising, the
\* records of the pages before, truncated to max_bookmarks, and nothing else.
C26_ExhaustedRetriesReturnPartial ==
    PageRetriesExhausted =>
        /\ path = None
        /\ ~ENABLED GbQuery
        /\ q_requests = self_tries
        /\ bookmarks = Concat(served)
        /\ (pc = "done" =>
                result = Deliver(Truncate(Concat(served), max_bookmarks)))

\* page 2 failed after page 1 gave 2 records
C26_Witness ==
    /\ PageRetriesExhausted
    /\ pc = "done"
    /\ api = "get_bookmarks"
    /\ page_index = 2
    /\ Len(served) = 1
    /\ max_bookmarks = 3
    /\ result = ReturnedBookmarks(bookmarks)
    /\ Len(result.bookmarks) = 2

\* the url, title and timestamp of the record of a post taken alone
OwnFields(post) ==
    <<IF post.u # "absent" THEN post.u ELSE None,
      IF post.d # "absent" THEN post.d ELSE "",
      IF post.dt # "absent" THEN StrpTimeISO(post.dt) ELSE None>>

\* C27: in the records of the JSON feed of get_user, the url, title and
\* timestamp of the i-th record are those of the i-th post, the default
\* (None, "", None) for a key the post lacks.
C27_RecordFromPostAlone ==
    ret.fn = "user_feed" /\ ret.exc = "none" =>
        \A i \in 1..Len(ret.bookmarks) :
            <<ret.bookmarks[i][1], ret.bookmarks[i][3], ret.bookmarks[i][5]>>
                = OwnFields(arg.posts[i])

\* C28: a get_url call whose summary request is answered by the empty JSON
\* list does not end at the summary with an exception: if it ends there, it
\* returns the document with empty title, no top tags and total_bookmarks 0.
C28_EmptySummaryReturnsEmptyDocument ==
    /\ pc = "done"
    /\ api = "get_url"
    /\ caller = "get_url"
    /\ q_last = 200
    /\ data = InfoBody(<<>>)
    => result = ReturnedDocument(NoDocument, <<>>)

(***************************************************************************)
(* Properties of the tags property, checked under SpecDecode.              *)
(***************************************************************************)

\* the bookmarks of bs annotated with tag
Carrying(bs, tag) == {i \in 1..Len(bs) : \E j \in 1..Len(bs[i][2]) : bs[i][2][j] = tag}

\* C21: the map the tags property of a DeliciousURL or DeliciousUser gives
\* has the tags of the bookmarks as its keys and gives for each tag the number
\* of bookmarks annotated with it, also when a tag list repeats a tag.
C21_TagCountsBookmarks ==
    ret.fn = "get_tags" =>
        /\ DOMAIN ret.tags = {tag \in TagNames : Carrying(arg.bookmarks, tag) # {}}
        /\ \A tag \in DOMAIN ret.tags :
               ret.tags[tag] = Cardinality(Carrying(arg.bookmarks, tag))

(***************************************************************************)
(* Properties of DeliciousMonitor, checked under SpecMonitor.              *)
(***************************************************************************)

\* the lines the log held when the running run began, and those the run added
LogBefore == SubSeq(log_file, 1, log_start)
LogOfRun == SubSeq(log_file, log_start + 1, Len(log_file))

\* the urls of the <document> elements the running run added to the output
OutputOfRun ==
    [i \in 1..(Len(output_file) - out_start) |-> output_file[out_start + i].url]

C23_UpstreamConditionAbortsRun ==
    mon_exc \in HTTPExceptions =>
        /\ mon_pc = "returned"
        /\ ~output_open
        /\ ~log_open
        /\ ~ENABLED MonitorGetUrl
        /\ Len(LogOfRun) = index - 1
        /\ Len(OutputOfRun) = index - 1

\* C24: run() sleeps the whole seconds left of the interval when the run took
\* at most the interval, 3 seconds when it took longer, and always more than
\* 0 seconds.
C24_SleepRemainderPositive ==
    mon_pc = "sleeping" =>
        /\ wait_seconds > 0
        /\ wait_seconds = (IF elapsed <= IntervalDelta(self_interval)
                           THEN (IntervalDelta(self_interval) - elapsed) \div 1000
                           ELSE 3)

\* C29: no url is logged twice and no url has two <document> elements in the
\* output.
C29_AtMostOncePerUrl ==
    /\ \A i, j \in 1..Len(log_file) : log_file[i] = log_file[j] => i = j
    /\ \A i, j \in 1..Len(output_file) :
           output_file[i].url = output_file[j].url => i = j

\* C30: when monitor() has returned, the urls the run added to the log are,
\* in order, the urls of the <document> elements it added to the output; and
\* when it returned because get_url raised a DeliciousError for a url, that
\* url is not among them and is not in the log, so that a later run takes it
\* as new.
C30_LogMatchesOutput ==
    mon_pc = "returned" =>
        /\ LogOfRun = [i \in 1..Len(OutputOfRun) |-> LogLine(OutputOfRun[i])]
        /\ (mon_exc # "none" =>
                /\ new_entries[index] \notin Range(OutputOfRun)
                /\ LogLine(new_entries[index]) \notin Range(log_file))

(***************************************************************************)
(* The carried date and the pages of one get_bookmarks call, checked under *)
(* Spec.                                                                   *)
(***************************************************************************)

\* the date of a record of the running get_bookmarks call
RecordDate(record) == IF username THEN record[5] ELSE record[4]

\* the block of the page the i-th record of the page was made of
RecordBlock(blocks, i) == IF username THEN i ELSE Nth(UserLinked(blocks), i)

\* the loop of get_bookmarks has just extracted the page held in page
PageExtracted ==
    /\ caller = "get_bookmarks"
    /\ pc = "gb_while"
    /\ page.kind = "page"
    /\ served # <<>>

\* C31: the records get_bookmarks extracts from a page take their date from
\* the date markers of that page only: a record whose block precedes every
\* date marker of its page has date None, whatever the pages before it ended
\* with.
C31_DateNotCarriedAcrossPages ==
    PageExtracted =>
        LET records == served[Len(served)].records
        IN  \A i \in 1..Len(records) :
                RecordDate(records[i]) = LastMarker(page.blocks, RecordBlock(page.blocks, i))

\* page 1 ended with a dated record, page 2 starts with a block without marker
C31_Witness ==
    /\ PageExtracted
    /\ Len(served) = 2
    /\ served[1].records # <<>>
    /\ served[2].records # <<>>
    /\ page.blocks # <<>>
    /\ RecordDate(served[1].records[Len(served[1].records)]) = "2008-12-31 00:00:00"
    /\ ~IsMarker(page.blocks[1])
    /\ RecordDate(served[2].records[1]) = None

====
